---- MODULE Spec2Model ----
(***************************************************************************)
(* vidmaker (vmaker.py): the Tk front-end (open_ui) and the three-stage    *)
(* pipeline process_files = merge_videos ; add_watermark ; add_audio, with *)
(* clean_up_files before and after.  The state is the filesystem, the      *)
(* three selections of the form, and the position of process_files.        *)
(*                                                                         *)
(* The media engine (ffmpeg) is an external collaborator.  One invocation  *)
(* either succeeds, which needs every input file to exist and writes the   *)
(* output file, or raises ffmpeg.Error and writes nothing.  It may fail    *)
(* for reasons the model does not see (bad streams, engine crash), so      *)
(* failure is always possible.                                             *)
(***************************************************************************)
EXTENDS Integers, Sequences, FiniteSets, TLC

\* ------------------------------------------------------------- bounds
MaxRuns == 2            \* process_files calls in one session
MaxClock == 3           \* clock ticks in one session
TicksPerSecond == 2     \* clock ticks per second of the timestamp
MaxFiles == 2           \* paths in one clean_up_files call (SpecCleanUp)
MaxCalls == 2           \* repeated clean_up_files calls (SpecCleanUp)

\* -------------------------------------------------------------- paths
\* A path is what os.path.splitext makes of it: a base (a sequence of name
\* parts) and an extension.  The empty string is EmptyPath.
Path(base, ext) == [base |-> base, ext |-> ext]
EmptyPath == Path(<<>>, "")
NonePath == Path(<<>>, "None")          \* Python's None as an audio path

merged_video == Path(<<"merged">>, ".mp4")
watermarked_video == Path(<<"watermarked">>, ".mp4")

CLIP == Path(<<"clip">>, ".mp4")
LOGO == Path(<<"logo">>, ".png")
SONG == Path(<<"song">>, ".mp3")

\* strftime("%Y%m%d_%H%M%S"): the clock truncated to whole seconds, as text
Timestamp(t) == ToString(t \div TicksPerSecond)

FinalName(ts) == Path(<<"vidmaker_", ts>>, ".mp4")

\* variant: the trim written over its own input
TrimmedNameInPlace(input_file) == input_file

\* trim_audio's output path: f"{base}_trimmed{ext}"
TrimmedName(input_file) == Path(Append(input_file.base, "_trimmed"), input_file.ext)

FinalNames == {FinalName(Timestamp(t)) : t \in 0..MaxClock}

VideoChoices == {<<>>, <<CLIP>>, <<CLIP, merged_video>>}
WatermarkChoices == {EmptyPath, LOGO}
AudioChoices == {EmptyPath, SONG}

UserFiles == {CLIP, LOGO, SONG, merged_video, TrimmedName(SONG)}

Paths == UserFiles \cup {merged_video, watermarked_video} \cup FinalNames

\* ------------------------------------------------------------ contents
Absent == [kind |-> "absent", run |-> 0]
Orig == [kind |-> "orig", run |-> 0]
Out(kind, r) == [kind |-> kind, run |-> r]

VARIABLES
    fs,               \* the filesystem: path -> content
    now,              \* the wall clock, in ticks
    video_files,      \* open_ui: nonlocal video_files
    watermark_image,  \* open_ui: nonlocal watermark_image
    audio_file,       \* open_ui: nonlocal audio_file
    dialog,           \* the last messagebox shown: "none", "warning", "info"
    pc,               \* "ui" (mainloop) or the position inside process_files
    run,              \* number of process_files calls so far
    final_video,      \* process_files: final_video
    trimmed_audio,    \* add_audio: trimmed_audio
    exc,              \* the stage whose exception is propagating, or "none"
    result,           \* how the last process_files call ended
    trace,            \* the steps of the current process_files call
    fs0,              \* the filesystem when process_files was called
    pf_args,          \* the arguments process_files was called with
    produced,         \* final artifacts of the successful runs so far
    cu_files,         \* SpecCleanUp: the argument list of clean_up_files
    cu_hist,          \* SpecCleanUp: the filesystem before each call
    cu_raised         \* SpecCleanUp: whether a call raised

vars == <<fs, now, video_files, watermark_image, audio_file, dialog, pc, run,
          final_video, trimmed_audio, exc, result, trace, fs0, pf_args,
          produced, cu_files, cu_hist, cu_raised>>

ui == <<video_files, watermark_image, audio_file>>
cu == <<cu_files, cu_hist, cu_raised>>
hist == <<fs0, pf_args, produced>>

Range(s) == {s[i] : i \in 1..Len(s)}

\* ---------------------------------------------------------- filesystem
\* variant: os.remove without the existence test
os_path_exists_always(f, file) == TRUE

os_path_exists(f, file) == f[file] # Absent

\* os.remove: raises FileNotFoundError on a missing path
os_remove(f, file) ==
    IF f[file] # Absent
    THEN [fs |-> [f EXCEPT ![file] = Absent], raised |-> FALSE]
    ELSE [fs |-> f, raised |-> TRUE]

RECURSIVE clean_up_files(_, _)
clean_up_files(f, files) ==
    IF files = <<>>
    THEN [fs |-> f, raised |-> FALSE]
    ELSE LET file == Head(files)
             r == IF os_path_exists(f, file)
                  THEN os_remove(f, file)
                  ELSE [fs |-> f, raised |-> FALSE]
         IN  IF r.raised THEN r ELSE clean_up_files(r.fs, Tail(files))

\* variant: the final name left out of the sweep before the run
StaleFilesIntermediatesOnly(final) == <<merged_video, watermarked_video>>

\* process_files line 109: the names swept before the run
StaleFiles(final) == <<merged_video, watermarked_video, final>>

\* variants: a sweep that forgets watermarked.mp4, one that takes the final file too
IntermediateFilesMergedOnly == <<merged_video>>
IntermediateFilesAndFinal == <<merged_video, watermarked_video, final_video>>

IntermediateFiles == <<merged_video, watermarked_video>>

\* the engine can succeed only when every input file exists
CanRun(f, inputs) == \A p \in inputs : p \in DOMAIN f /\ f[p] # Absent

Write(f, p, c) == [f EXCEPT ![p] = c]

\* ------------------------------------------------------- control flow
Count(s, op) == Cardinality({i \in 1..Len(s) : s[i].op = op})

NextStage(stage) ==
    CASE stage = "merge" -> "wm_probe"
      [] stage = "wm_probe" -> "wm_encode"
      [] stage = "wm_encode" -> "mix_probe"
      [] stage = "mix_probe" -> "trim"
      [] stage = "trim" -> "mux"
      [] stage = "mux" -> "showinfo"
      [] stage = "showinfo" -> "finally"

\* variants: an exception swallowed, a failed step tried once more
AfterStageSwallow(stage, ok) == NextStage(stage)
AfterStageRetry(stage, ok) ==
    IF ok THEN NextStage(stage)
    ELSE IF Count(trace, stage) < 1 THEN stage ELSE "finally"

\* try/finally of process_files: an exception skips to the finally block
AfterStage(stage, ok) == IF ok THEN NextStage(stage) ELSE "finally"

\* variant: a guard satisfied by any one selection
InputSetCompleteAny(v, w, a) == v # <<>> \/ w # EmptyPath \/ a # EmptyPath

\* start_processing: not (not video_files or not watermark_image or not audio_file)
InputSetComplete(v, w, a) == v # <<>> /\ w # EmptyPath /\ a # EmptyPath

Entry(op, reads, ok) == [op |-> op, reads |-> reads, ok |-> ok]

\* one step of process_files that invokes the engine and may raise
Step(stage, ok, reads, fsNew) ==
    /\ pc = stage
    /\ trace' = Append(trace, Entry(stage, reads, ok))
    /\ pc' = AfterStage(stage, ok)
    /\ exc' = IF ok THEN exc ELSE stage
    /\ fs' = fsNew

\* --------------------------------------------------------------- Init
Init ==
    /\ fs \in {f \in [Paths -> {Absent, Orig}] : \A p \in Paths \ UserFiles : f[p] = Absent}
    /\ now = 0
    /\ video_files = <<>>
    /\ watermark_image = EmptyPath
    /\ audio_file = EmptyPath
    /\ dialog = "none"
    /\ pc = "ui"
    /\ run = 0
    /\ final_video = EmptyPath
    /\ trimmed_audio = NonePath
    /\ exc = "none"
    /\ result = "none"
    /\ trace = <<>>
    /\ fs0 = fs
    /\ pf_args = [videos |-> <<>>, watermark |-> EmptyPath, audio |-> EmptyPath]
    /\ produced = {}
    /\ cu_files = <<>>
    /\ cu_hist = <<>>
    /\ cu_raised = FALSE

\* ------------------------------------------------------------ actions
Tick ==
    /\ now < MaxClock
    /\ now' = now + 1
    /\ UNCHANGED <<fs, ui, dialog, pc, run, final_video, trimmed_audio, exc,
                   result, trace, hist, cu>>

select_videos ==
    /\ pc = "ui"
    /\ \E v \in VideoChoices : video_files' = v
    /\ dialog' = "none"
    /\ UNCHANGED <<fs, now, watermark_image, audio_file, pc, run, final_video,
                   trimmed_audio, exc, result, trace, hist, cu>>

select_watermark ==
    /\ pc = "ui"
    /\ \E w \in WatermarkChoices : watermark_image' = w
    /\ dialog' = "none"
    /\ UNCHANGED <<fs, now, video_files, audio_file, pc, run, final_video,
                   trimmed_audio, exc, result, trace, hist, cu>>

select_audio ==
    /\ pc = "ui"
    /\ \E a \in AudioChoices : audio_file' = a
    /\ dialog' = "none"
    /\ UNCHANGED <<fs, now, video_files, watermark_image, pc, run, final_video,
                   trimmed_audio, exc, result, trace, hist, cu>>

\* start_processing, the warning branch
start_processing_warn ==
    /\ pc = "ui"
    /\ ~InputSetComplete(video_files, watermark_image, audio_file)
    /\ dialog' = "warning"
    /\ UNCHANGED <<fs, now, ui, pc, run, final_video, trimmed_audio, exc,
                   result, trace, hist, cu>>

\* start_processing calling process_files, up to the stale cleanup
start_processing_run ==
    /\ pc = "ui"
    /\ InputSetComplete(video_files, watermark_image, audio_file)
    /\ run < MaxRuns
    /\ run' = run + 1
    /\ final_video' = FinalName(Timestamp(now))
    /\ fs0' = fs
    /\ pf_args' = [videos |-> video_files, watermark |-> watermark_image,
                   audio |-> audio_file]
    /\ fs' = clean_up_files(fs, StaleFiles(final_video')).fs
    /\ trace' = <<Entry("clean_stale", {}, TRUE)>>
    /\ trimmed_audio' = NonePath
    /\ exc' = "none"
    /\ result' = "none"
    /\ dialog' = "none"
    /\ pc' = "merge"
    /\ UNCHANGED <<now, ui, produced, cu>>

merge_videos ==
    /\ \E ok \in BOOLEAN :
         /\ ok => CanRun(fs, Range(video_files))
         /\ Step("merge", ok, Range(video_files),
                 IF ok THEN Write(fs, merged_video, Out("merged", run)) ELSE fs)
    /\ UNCHANGED <<now, ui, dialog, run, final_video, trimmed_audio, result,
                   hist, cu>>

add_watermark_probe ==
    /\ \E ok \in BOOLEAN :
         /\ ok => CanRun(fs, {merged_video})
         /\ Step("wm_probe", ok, {merged_video}, fs)
    /\ UNCHANGED <<now, ui, dialog, run, final_video, trimmed_audio, result,
                   hist, cu>>

add_watermark_run ==
    /\ \E ok \in BOOLEAN :
         /\ ok => CanRun(fs, {merged_video, watermark_image})
         /\ Step("wm_encode", ok, {merged_video, watermark_image},
                 IF ok THEN Write(fs, watermarked_video, Out("watermarked", run)) ELSE fs)
    /\ UNCHANGED <<now, ui, dialog, run, final_video, trimmed_audio, result,
                   hist, cu>>

add_audio_probe ==
    /\ \E ok \in BOOLEAN :
         /\ ok => CanRun(fs, {watermarked_video})
         /\ Step("mix_probe", ok, {watermarked_video}, fs)
    /\ UNCHANGED <<now, ui, dialog, run, final_video, trimmed_audio, result,
                   hist, cu>>

\* trim_audio: ffmpeg.Error is caught, None is returned, nothing is raised
trim_audio ==
    /\ pc = "trim"
    /\ \E ok \in BOOLEAN :
         /\ ok => CanRun(fs, {audio_file})
         /\ trace' = Append(trace, Entry("trim", {audio_file}, ok))
         /\ fs' = IF ok THEN Write(fs, TrimmedName(audio_file), Out("trimmed", run))
                  ELSE fs
         /\ trimmed_audio' = IF ok THEN TrimmedName(audio_file) ELSE NonePath
    /\ pc' = NextStage("trim")
    /\ UNCHANGED <<now, ui, dialog, run, final_video, exc, result, hist, cu>>

\* the mux of add_audio: ffmpeg.input(trimmed_audio) and output(...).run().
\* trimmed_audio is used as trim_audio returned it; with None as the input
\* file name the invocation cannot succeed and raises.
add_audio_run ==
    /\ \E ok \in BOOLEAN :
         /\ ok => trimmed_audio # NonePath /\ CanRun(fs, {watermarked_video, trimmed_audio})
         /\ Step("mux", ok, {watermarked_video, trimmed_audio},
                 IF ok THEN Write(fs, final_video, Out("final", run)) ELSE fs)
    /\ UNCHANGED <<now, ui, dialog, run, final_video, trimmed_audio, result,
                   hist, cu>>

showinfo ==
    /\ pc = "showinfo"
    /\ dialog' = "info"
    /\ trace' = Append(trace, Entry("showinfo", {}, TRUE))
    /\ pc' = NextStage("showinfo")
    /\ UNCHANGED <<fs, now, ui, run, final_video, trimmed_audio, exc, result,
                   hist, cu>>

\* the finally block, then the return (or the exception) to start_processing
clean_intermediate ==
    /\ pc = "finally"
    /\ fs' = clean_up_files(fs, IntermediateFiles).fs
    /\ trace' = Append(trace, Entry("clean_intermediate", {}, TRUE))
    /\ result' = IF exc = "none" THEN "ok" ELSE "raised"
    /\ produced' = IF exc = "none"
                   THEN produced \cup {[path |-> final_video, content |-> fs[final_video]]}
                   ELSE produced
    /\ pc' = "ui"
    /\ UNCHANGED <<now, ui, dialog, run, final_video, trimmed_audio, exc, fs0,
                   pf_args, cu>>

Next ==
    \/ Tick
    \/ select_videos
    \/ select_watermark
    \/ select_audio
    \/ start_processing_warn
    \/ start_processing_run
    \/ merge_videos
    \/ add_watermark_probe
    \/ add_watermark_run
    \/ add_audio_probe
    \/ trim_audio
    \/ add_audio_run
    \/ showinfo
    \/ clean_intermediate

Spec == Init /\ [][Next]_vars

\* ------------------------------------------- clean_up_files on its own
\* clean_up_files applied, repeatedly, to an arbitrary argument list in an
\* arbitrary filesystem.
CleanUpPaths == {merged_video, watermarked_video, CLIP, FinalName(Timestamp(0))}

SeqsUpTo(S, n) == UNION {[1..k -> S] : k \in 0..n}

InitCleanUp ==
    /\ fs \in {f \in [Paths -> {Absent, Orig}] : \A p \in Paths \ CleanUpPaths : f[p] = Absent}
    /\ cu_files \in SeqsUpTo(CleanUpPaths, MaxFiles)
    /\ cu_hist = <<>>
    /\ cu_raised = FALSE
    /\ now = 0
    /\ video_files = <<>>
    /\ watermark_image = EmptyPath
    /\ audio_file = EmptyPath
    /\ dialog = "none"
    /\ pc = "ui"
    /\ run = 0
    /\ final_video = EmptyPath
    /\ trimmed_audio = NonePath
    /\ exc = "none"
    /\ result = "none"
    /\ trace = <<>>
    /\ fs0 = fs
    /\ pf_args = [videos |-> <<>>, watermark |-> EmptyPath, audio |-> EmptyPath]
    /\ produced = {}

clean_up_call ==
    /\ Len(cu_hist) < MaxCalls
    /\ LET r == clean_up_files(fs, cu_files)
       IN  /\ fs' = r.fs
           /\ cu_raised' = (cu_raised \/ r.raised)
    /\ cu_hist' = Append(cu_hist, fs)
    /\ UNCHANGED <<now, ui, dialog, pc, run, final_video, trimmed_audio, exc,
                   result, trace, hist, cu_files>>

NextCleanUp == clean_up_call

SpecCleanUp == InitCleanUp /\ [][NextCleanUp]_vars

\* ------------------------------------------------------------- claims
Returned == pc = "ui" /\ result # "none"

Succeeded(op) == \E i \in 1..Len(trace) : trace[i].op = op /\ trace[i].ok

Failures == {i \in 1..Len(trace) : ~trace[i].ok /\ trace[i].op # "trim"}

EngineOps == {"merge", "wm_probe", "wm_encode", "mix_probe", "trim", "mux"}

\* C1: whenever process_files has finished, by return or by exception, the
\* intermediate cleanup was its last step and neither merged.mp4 nor
\* watermarked.mp4 exists.
C1_CleanupOnEveryExit ==
    Returned =>
        /\ trace[Len(trace)].op = "clean_intermediate"
        /\ fs[merged_video] = Absent
        /\ fs[watermarked_video] = Absent

C1_Witness ==
    /\ Returned
    /\ result = "raised"
    /\ exc = "wm_encode"
    /\ Succeeded("merge")

\* the watermark encode failed and the watermark image it read does not exist
WatermarkMissing ==
    /\ exc = "wm_encode"
    /\ \E i \in Failures :
         /\ trace[i].op = "wm_encode"
         /\ \E p \in trace[i].reads \ {merged_video} : fs[p] = Absent

\* C2: once a stage has failed, nothing but the intermediate cleanup follows
\* it, no success message is shown, and the call ends with the error; when
\* the watermark image is missing, add_audio is never entered, merged.mp4 is
\* gone at the end and the run has created no vidmaker_*.mp4.
C2_FailedIsAbsorbing ==
    exc # "none" =>
        /\ pc \in {"finally", "ui"}
        /\ \A i \in Failures : \A j \in (i + 1)..Len(trace) :
               trace[j].op = "clean_intermediate"
        /\ Count(trace, "showinfo") = 0
        /\ dialog # "info"
        /\ pc = "ui" => result = "raised"
        /\ WatermarkMissing =>
             /\ Count(trace, "mix_probe") = 0
             /\ Count(trace, "trim") = 0
             /\ Count(trace, "mux") = 0
             /\ pc = "ui" => fs[merged_video] = Absent
             /\ \A n \in FinalNames : fs[n] # Absent => fs[n] = fs0[n]

C2_Witness ==
    /\ Returned
    /\ result = "raised"
    /\ WatermarkMissing
    /\ Succeeded("merge")
    /\ fs[merged_video] = Absent

\* C3: every final artifact of a successful run is still there, with the
\* content that run gave it.
C3_FinalArtifactNeverLost ==
    \A r \in produced : fs[r.path] = r.content

SelectionComplete ==
    video_files # <<>> /\ watermark_image # EmptyPath /\ audio_file # EmptyPath

\* C5: process_files runs only with all three selections non-empty; a
\* start with an incomplete selection shows the warning, calls nothing and
\* changes no selection.
C5_NoRunOnIncompleteInput ==
    /\ [](pc # "ui" => SelectionComplete)
    /\ [][/\ run' # run => SelectionComplete /\ UNCHANGED ui
          /\ (dialog' = "warning" /\ dialog # "warning") =>
                 ~SelectionComplete /\ UNCHANGED ui /\ run' = run /\ pc' = "ui"
         ]_vars

C5_Witness ==
    /\ dialog = "warning"
    /\ video_files # <<>>
    /\ watermark_image # EmptyPath
    /\ audio_file = EmptyPath
    /\ run = 0

\* C6: clean_up_files never raises on a missing path, leaves none of the
\* named paths, touches no other path, and a second call changes nothing.
C6_CleanUpIdempotent ==
    Len(cu_hist) >= 1 =>
        /\ ~cu_raised
        /\ \A p \in Range(cu_files) : fs[p] = Absent
        /\ \A p \in Paths \ Range(cu_files) : fs[p] = cu_hist[1][p]
        /\ Len(cu_hist) >= 2 => fs = cu_hist[Len(cu_hist)]

C6_Witness ==
    /\ Len(cu_hist) = 2
    /\ \E p \in Range(cu_files) : cu_hist[1][p] # Absent
    /\ \E p \in Range(cu_files) : cu_hist[1][p] = Absent

\* C7: a failed trim raises nothing, and the mux is never invoked with a
\* null audio path.
C7_MuxNeverGetsNull ==
    /\ \A i \in 1..Len(trace) :
         (trace[i].op = "trim" /\ ~trace[i].ok) => (i = Len(trace) => exc = "none")
    /\ \A i \in 1..Len(trace) : trace[i].op = "mux" => NonePath \notin trace[i].reads

FixedOrder ==
    <<"clean_stale", "merge", "wm_probe", "wm_encode", "mix_probe", "trim",
      "mux", "showinfo">>

Swept == Len(trace) > 0 /\ trace[Len(trace)].op = "clean_intermediate"

Body == IF Swept THEN SubSeq(trace, 1, Len(trace) - 1) ELSE trace

\* C8: the steps of a run follow the fixed order with none repeated, each
\* starts only after the one before it succeeded (the trim may fail softly),
\* the watermark stage reads merged.mp4, the mix stage reads watermarked.mp4,
\* and a successful run has made every engine invocation exactly once.
C8_FixedOrderNoRetry ==
    /\ Len(Body) <= Len(FixedOrder)
    /\ \A i \in 1..Len(Body) :
         /\ Body[i].op = FixedOrder[i]
         /\ i > 1 => Body[i - 1].ok \/ Body[i - 1].op = "trim"
         /\ Body[i].op = "wm_probe" => Body[i].reads = {merged_video}
         /\ Body[i].op = "wm_encode" => merged_video \in Body[i].reads
         /\ Body[i].op = "mix_probe" => Body[i].reads = {watermarked_video}
         /\ Body[i].op = "mux" => watermarked_video \in Body[i].reads
    /\ \A op \in EngineOps : Count(trace, op) <= 1
    /\ Count(trace, "clean_intermediate") <= 1
    /\ (Returned /\ result = "ok") =>
         /\ Swept
         /\ \A op \in EngineOps : Count(trace, op) = 1

C8_Witness ==
    /\ Returned
    /\ result = "ok"
    /\ Len(trace) = Len(FixedOrder) + 1

\* C9: the intermediate cleanup changes no path but merged.mp4 and
\* watermarked.mp4, so the final artifact and the trimmed audio are as they
\* were, and after a successful run both exist.
C9_SweepLeavesFinalAndTrimmed ==
    /\ [][pc = "finally" =>
            /\ fs'[final_video] = fs[final_video]
            /\ fs'[Path(Append(audio_file.base, "_trimmed"), audio_file.ext)]
                 = fs[Path(Append(audio_file.base, "_trimmed"), audio_file.ext)]
            /\ \A p \in Paths \ {merged_video, watermarked_video} : fs'[p] = fs[p]
         ]_vars
    /\ []((Returned /\ result = "ok") =>
            /\ fs[final_video] = Out("final", run)
            /\ fs[Path(Append(pf_args.audio.base, "_trimmed"), pf_args.audio.ext)]
                 = Out("trimmed", run))

C9_Witness ==
    /\ Returned
    /\ result = "ok"
    /\ fs[final_video] = Out("final", run)
    /\ fs[trimmed_audio] = Out("trimmed", run)

InputSet == Range(pf_args.videos) \cup {pf_args.watermark, pf_args.audio}

\* the names process_files itself deletes or writes
OwnNames ==
    {merged_video, watermarked_video, final_video,
     Path(Append(pf_args.audio.base, "_trimmed"), pf_args.audio.ext)}

\* C10 as stated: every input file that existed at the call is unchanged
\* during and after the run.
C10_InputsUntouched ==
    run > 0 => \A p \in InputSet : fs0[p] # Absent => fs[p] = fs0[p]

\* C10 as amended: every input file whose path is none of merged.mp4,
\* watermarked.mp4, the run's vidmaker_<timestamp>.mp4 and the trimmed-audio
\* name is unchanged during and after the run.
C10_InputsUntouchedUnlessOwnName ==
    run > 0 => \A p \in InputSet \ OwnNames : fs[p] = fs0[p]

C10_Witness ==
    /\ Returned
    /\ merged_video \in InputSet
    /\ fs0[merged_video] # Absent
    /\ fs[merged_video] = Absent
    /\ \A p \in InputSet \ OwnNames : fs0[p] # Absent /\ fs[p] = fs0[p]

====
